---- MODULE Spec2Model ----
(***************************************************************************)
(* typed-requests: NetworkingManager (src/src/requests/core.py).           *)
(*                                                                         *)
(* The manager is driven by coroutines of one asyncio event loop.  A       *)
(* coroutine gives up control only at an await that really suspends:       *)
(* `await self._client.aclose()` (shutdown) and                            *)
(* `await self._client.request(...)` (request).  `await self.startup()`    *)
(* runs startup's body inline, because startup contains no await.  Each    *)
(* action below is therefore one run of a coroutine from one suspension    *)
(* point to the next.                                                      *)
(***************************************************************************)
EXTENDS Integers, Sequences, FiniteSets, TLC

\* ------------------------------------------------------------------ bounds
MaxCalls == 5          \* calls of startup/shutdown/request made in one run
MaxInFlight == 2       \* calls suspended in an await at the same time
MaxOptionCalls == 2    \* calls made in one run of the specification of the options
MaxInstanceCalls == 4  \* calls made in one run of the specification of the instances

CallIds == 1..MaxCalls
ClientIds == 1..MaxCalls
None == 0              \* Python None for self._client
Unset == -1            \* no _client entry in the instance's own attributes

\* ------------------------------------------------------------ input sets
NoType == "None"                       \* expected_type=None
Shapes == {"int", "list"}              \* expected_type values
Statuses == {200, 404, 500}            \* response.status_code
Bodies == {"1", "<html>"}              \* response body text
Methods == {"TRACE"}                   \* method of a direct request() call
Verbs == {"GET", "POST", "PUT", "DELETE", "HEAD", "OPTIONS", "PATCH"}

DEFAULT_TIMEOUT == 9
DEFAULT_USER_AGENT == "Mozilla/5.0 (X11; Ubuntu; Linux i686; rv:130.0) Gecko/20100101 Firefox/130.0"

\* A dict with the keys `keys`, read from the dict `d`.
Restrict(d, keys) == [k \in keys |-> d[k]]

\* The headers= values a caller passes.
CallerHeaders ==
    LET all == ("user-agent" :> "X") @@ ("x-custom" :> "Y")
    IN  {Restrict(all, keys) : keys \in SUBSET DOMAIN all}

\* The **kwargs a caller passes: any of headers, timeout, proxy and json.
Kwargs ==
    {Restrict(("headers" :> h) @@ ("timeout" :> 2) @@ ("proxy" :> "http://proxy")
                  @@ ("json" :> "{}"), keys) :
        h \in CallerHeaders, keys \in SUBSET {"headers", "timeout", "proxy", "json"}}

NoKwargs == <<>>                       \* a call without keyword options

\* ------------------------------------------------------------------ state
VARIABLES
    client,        \* self._client: None or the id of an AsyncClient
    constructed,   \* number of AsyncClient objects constructed so far (ids 1..constructed)
    aclosed,       \* aclosed[c]: number of times c.aclose() has been invoked
    calls,         \* number of calls made so far (ids 1..calls)
    task,          \* task[i]: where call i is suspended, or Idle
    log,           \* the lines the latest step wrote to stdout
    sent,          \* the transport call the latest step issued, or NoSend
    last,          \* the call that returned or raised in the latest step, or Idle
    tls_contexts,     \* tls.py: the module-level contexts built so far, in source order
    instance_client,  \* instance_client[m]: the _client attribute of instance m, or Unset
    class_client,     \* NetworkingManager._client, the class attribute
    instance_made,    \* AsyncClient objects constructed by the instances so far
    instance_calls,   \* calls made on the instances so far
    awaiting,         \* awaiting[m]: the calls on instance m suspended in an await
    acted             \* the instance the latest step ran on, or NoInstance

\* The state of the one manager of Spec and SpecOptions, and the state beside it.
elsewhere == <<tls_contexts, instance_client, class_client, instance_made,
               instance_calls, awaiting, acted>>
manager == <<client, constructed, aclosed, calls, task, log, sent, last>>

vars == <<client, constructed, aclosed, calls, task, log, sent, last,
          tls_contexts, instance_client, class_client, instance_made,
          instance_calls, awaiting, acted>>

\* ------------------------------------------------------------- log lines
\* MockLogger._log writes LEVEL:name:msg; exc_info appends the traceback.
LogLine(level, msg, exc_info) == [level |-> level, msg |-> msg, exc_info |-> exc_info]

info(msg) == LogLine("INFO", msg, FALSE)
warning(msg) == LogLine("WARNING", msg, FALSE)
error(msg, exc_info) == LogLine("ERROR", msg, exc_info)

\* ---------------------------------------------------- responses and errors
NoResponse == [req |-> 0, status |-> 0, body |-> ""]
NoData == [type |-> "", text |-> ""]
\* The timeout, headers and passthrough options of a transport call.
Args(timeout, headers, kwargs) == [timeout |-> timeout, headers |-> headers, kwargs |-> kwargs]

NoArgs == Args(0, <<>>, <<>>)

\* self._client.request(method, url, timeout=..., headers=..., **kwargs)
\* issued on client `on` by call `req`, which was given the options `given`.
Send(req, on, method, args, given) ==
    [req |-> req, on |-> on, method |-> method, timeout |-> args.timeout,
     headers |-> args.headers, kwargs |-> args.kwargs, given |-> given]

NoSend == Send(0, None, "", NoArgs, <<>>)

NoError == [kind |-> "", about |-> NoResponse]

\* The httpx.Response the transport call of call i received.
Response(i, status, body) == [req |-> i, status |-> status, body |-> body]

\* An exception object: its class and the response it was raised about.
Exc(kind, response) == [kind |-> kind, about |-> response]

\* response.json(): the decoded body, or a decode error.
JsonDecode(body) ==
    CASE body = "1" -> [ok |-> TRUE, data |-> [type |-> "int", text |-> "1"]]
      [] body = "[1]" -> [ok |-> TRUE, data |-> [type |-> "list", text |-> "1"]]
      [] body = "null" -> [ok |-> TRUE, data |-> [type |-> "NoneType", text |-> ""]]
      [] OTHER -> [ok |-> FALSE, data |-> NoData]

\* validate = type_enforcer.enforce: the data when it conforms to the shape.
validate(data, expected_type) ==
    IF data.type = expected_type
    THEN [ok |-> TRUE, value |-> data]
    ELSE [ok |-> FALSE, value |-> NoData]

\* httpx.Response.is_success, the test raise_for_status() applies.
is_success(status) == 200 <= status /\ status <= 299

\* ------------------------------------------------------- calls and outcomes
\* What a call hands to its caller: None, a raw response, a TypedResponse
\* (response, data), or an exception.
Returned(kind, response, data) ==
    [kind |-> kind, response |-> response, data |-> data, error |-> NoError]

Raised(e) ==
    [kind |-> "raise", response |-> NoResponse, data |-> NoData, error |-> e]

NoResult == Returned("", NoResponse, NoData)

\* TypedResponse.__init__(response, data)
TypedResponse(response, data) == Returned("typed", response, data)

\* A suspended call: its operation and arguments, the await it is suspended
\* in, and the handle its transport call or aclose() was issued on.
Suspended(op, pc, expected_type, handle) ==
    [op |-> op, pc |-> pc, expected_type |-> expected_type, handle |-> handle]

Idle == Suspended("", "idle", NoType, None)

\* A finished call: its operation and arguments, the response its transport
\* call received, how often it decoded and validated, and its outcome.
Finished(op, expected_type, response, decoded, validated, result) ==
    [op |-> op, expected_type |-> expected_type, response |-> response,
     decoded |-> decoded, validated |-> validated, result |-> result]

\* The number of calls suspended in an await.
InFlight == Cardinality({i \in CallIds : task[i] # Idle})

NoCall == Finished("", NoType, NoResponse, 0, 0, NoResult)

ReturnedNone == Returned("None", NoResponse, NoData)

\* The outcome of `await self._client.request(...)`: a transport error, or a
\* response with some status and body.
TransportOutcomes(i) ==
    {[raised |-> TRUE, response |-> NoResponse]}
    \cup {[raised |-> FALSE, response |-> Response(i, s, b)] : s \in Statuses, b \in Bodies}

\* ------------------------------------------------------------ the methods
\* from_response that wraps the decoded data without validating it.
from_response_unvalidated(response, expected_type) ==
    LET json_data == JsonDecode(response.body)
    IN  IF ~json_data.ok
        THEN [result |-> Raised(Exc("DecodeError", response)),
              log |-> <<error("Error processing response", TRUE)>>,
              decoded |-> 1, validated |-> 0]
        ELSE [result |-> TypedResponse(response, json_data.data),
              log |-> <<>>, decoded |-> 1, validated |-> 0]

\* from_response that swallows a decode error and wraps empty data.
from_response_partial(response, expected_type) ==
    LET json_data == JsonDecode(response.body)
        validated_data == validate(json_data.data, expected_type)
    IN  IF ~json_data.ok
        THEN [result |-> TypedResponse(response, NoData),
              log |-> <<error("Error processing response", TRUE)>>,
              decoded |-> 1, validated |-> 0]
        ELSE IF ~validated_data.ok
        THEN [result |-> Raised(Exc("ValidationError", response)),
              log |-> <<error("Response validation failed", FALSE)>>,
              decoded |-> 1, validated |-> 1]
        ELSE [result |-> TypedResponse(response, validated_data.value),
              log |-> <<>>, decoded |-> 1, validated |-> 1]

\* TypedResponse.from_response
from_response(response, expected_type) ==
    LET json_data == JsonDecode(response.body)
        validated_data == validate(json_data.data, expected_type)
    IN  IF ~json_data.ok
        THEN [result |-> Raised(Exc("DecodeError", response)),
              log |-> <<error("Error processing response", TRUE)>>,
              decoded |-> 1, validated |-> 0]
        ELSE IF ~validated_data.ok
        THEN [result |-> Raised(Exc("ValidationError", response)),
              log |-> <<error("Response validation failed", FALSE)>>,
              decoded |-> 1, validated |-> 1]
        ELSE [result |-> TypedResponse(response, validated_data.value),
              log |-> <<>>, decoded |-> 1, validated |-> 1]

\* startup without its `is None` test: it constructs a client on every call.
startup_always(c, n) ==
    [client |-> n + 1, constructed |-> n + 1,
     log |-> <<info("Initializing persistent HTTP client")>>]

\* NetworkingManager.startup, on handle c with n clients constructed so far.
startup(c, n) ==
    IF c = None
    THEN [client |-> n + 1, constructed |-> n + 1,
          log |-> <<info("Initializing persistent HTTP client")>>]
    ELSE [client |-> c, constructed |-> n,
          log |-> <<warning("HTTP client already initialized.")>>]

\* shutdown without its `is not None` test: it takes the closing branch always.
shutdown_enter_nocheck(c) ==
    [aclose |-> c, log |-> <<info("Closing persistent HTTP client")>>]

\* NetworkingManager.shutdown up to its await: the client whose aclose() is
\* invoked (None: the call returns at once) and the line logged.
shutdown_enter(c) ==
    IF c # None
    THEN [aclose |-> c, log |-> <<info("Closing persistent HTTP client")>>]
    ELSE [aclose |-> None,
          log |-> <<warning("HTTP client not initialized or already closed.")>>]

\* shutdown that forgets `self._client = None`.
shutdown_keep(c) == c

\* NetworkingManager.shutdown after aclose() has returned: the new handle.
shutdown_clear(c) == None

\* kwargs.pop(key, default): the value popped.
pop(kwargs, key, default) == IF key \in DOMAIN kwargs THEN kwargs[key] ELSE default

\* {**a, **b}
DictMerge(a, b) ==
    [k \in DOMAIN a \cup DOMAIN b |-> IF k \in DOMAIN b THEN b[k] ELSE a[k]]

\* The default headers of request.
DefaultHeaders ==
    ("accept" :> "*/*") @@ ("user-agent" :> DEFAULT_USER_AGENT)
        @@ ("accept-encoding" :> "gzip,deflate")

\* request_args with the merge turned round: the defaults override the caller.
request_args_defaults_win(kwargs) ==
    Args(pop(kwargs, "timeout", DEFAULT_TIMEOUT),
         DictMerge(pop(kwargs, "headers", <<>>), DefaultHeaders),
         Restrict(kwargs, DOMAIN kwargs \ {"headers", "timeout", "proxy"}))

\* request_args that reads the timeout without popping it.
request_args_timeout_kept(kwargs) ==
    Args(pop(kwargs, "timeout", DEFAULT_TIMEOUT),
         DictMerge(DefaultHeaders, pop(kwargs, "headers", <<>>)),
         Restrict(kwargs, DOMAIN kwargs \ {"headers", "proxy"}))

\* The head of request's try block: headers, timeout and proxy are popped
\* from kwargs; the transport call gets the timeout, the defaults overridden
\* by the caller's headers, and what is left of kwargs.
request_args(kwargs) ==
    Args(pop(kwargs, "timeout", DEFAULT_TIMEOUT),
         DictMerge(DefaultHeaders, pop(kwargs, "headers", <<>>)),
         Restrict(kwargs, DOMAIN kwargs \ {"headers", "timeout", "proxy"}))

\* request that constructs its own client without testing the handle.
request_enter_nocheck(c, n) ==
    LET s == startup(None, n)
    IN  [client |-> s.client, constructed |-> s.constructed, handle |-> s.client,
         log |-> s.log \o <<info("Requesting")>>]

\* request without the implicit startup: it uses the handle as it finds it.
request_enter_nostartup(c, n) ==
    [client |-> c, constructed |-> n, handle |-> c, log |-> <<info("Requesting")>>]

\* NetworkingManager.request up to its await: the implicit startup and the
\* handle the transport call is issued on.
request_enter(c, n) ==
    LET s == IF c = None THEN startup(c, n)
             ELSE [client |-> c, constructed |-> n, log |-> <<>>]
        pre == IF c = None
               THEN <<info("NetworkingManager not started. Calling startup()...")>>
               ELSE <<>>
    IN  [client |-> s.client, constructed |-> s.constructed, handle |-> s.client,
         log |-> pre \o s.log \o <<info("Requesting")>>]

\* raise_for_status that raises for server errors only.
raise_for_status_lenient(response) ==
    IF response.status < 500 THEN NoError ELSE Exc("HTTPStatusError", response)

\* response.raise_for_status(): the exception it raises, or NoError.
raise_for_status(response) ==
    IF is_success(response.status) THEN NoError ELSE Exc("HTTPStatusError", response)

\* request that returns the raw response without the deprecation warning.
request_return_quiet(response, expected_type) ==
    IF expected_type # NoType
    THEN from_response(response, expected_type)
    ELSE [result |-> Returned("raw", response, NoData), log |-> <<>>,
          decoded |-> 0, validated |-> 0]

\* The end of request's try block, after raise_for_status() has passed: the
\* TypedResponse, or the deprecation warning and the raw response.
request_return(response, expected_type) ==
    IF expected_type # NoType
    THEN from_response(response, expected_type)
    ELSE [result |-> Returned("raw", response, NoData),
          log |-> <<warning("Non-typed responses are deprecated")>>,
          decoded |-> 0, validated |-> 0]

\* An except clause that re-raises without logging.
request_except_silent(e) == [result |-> Raised(e), log |-> <<>>, sent |-> NoSend]

\* An except clause that issues the transport call a second time.
request_except_retry(e) ==
    [result |-> Raised(e), log |-> <<error("Request failed", TRUE)>>,
     sent |-> Send(e.about.req, None, "RETRY", NoArgs, <<>>)]

\* The except clause of request: log the exception and re-raise it; it
\* issues no further transport call.
request_except(e) ==
    [result |-> Raised(e), log |-> <<error("Request failed", TRUE)>>, sent |-> NoSend]

\* NetworkingManager.request after its await, given the transport's outcome.
request_finish(tr, expected_type) ==
    LET status_error == raise_for_status(tr.response)
        r == request_return(tr.response, expected_type)
        e == IF tr.raised THEN Exc("TransportError", NoResponse)
             ELSE IF status_error # NoError THEN status_error
             ELSE r.result.error
        x == request_except(e)
    IN  IF tr.raised \/ status_error # NoError
        THEN [result |-> x.result, log |-> x.log, decoded |-> 0, validated |-> 0,
              sent |-> x.sent]
        ELSE IF r.result.kind = "raise"
        THEN [result |-> x.result, log |-> r.log \o x.log,
              decoded |-> r.decoded, validated |-> r.validated, sent |-> x.sent]
        ELSE [result |-> r.result, log |-> r.log,
              decoded |-> r.decoded, validated |-> r.validated, sent |-> NoSend]

\* ------------------------------------------------------------------ tls.py
\* ssl_context.get_ciphers() of a default context, by name.
Ciphers == <<"TLS_AES_256_GCM_SHA384", "ECDHE-RSA-AES256-GCM-SHA384",
             "ECDHE-RSA-CHACHA20-POLY1305">>

\* The outcomes of random.shuffle on a list as long as Ciphers: shuffle[i]
\* is the old position of the element that lands at position i.
Shuffles ==
    {p \in [1..Len(Ciphers) -> 1..Len(Ciphers)] :
        \A i, j \in 1..Len(Ciphers) : i # j => p[i] # p[j]}

NoAlpn == <<>>                         \* no ALPN protocols configured

\* ssl.create_default_context(): no ALPN protocols, the library's version
\* range and cipher order.
create_default_context ==
    [alpn |-> NoAlpn, minimum_version |-> "MINIMUM_SUPPORTED",
     maximum_version |-> "MAXIMUM_SUPPORTED", ciphers |-> Ciphers]

\* _create_ssl_context(use_http2, disable_tls_1_3), with the outcome of its
\* random.shuffle.
create_ssl_context(use_http2, disable_tls_1_3, shuffle) ==
    LET ssl_context == create_default_context
        with_alpn == IF use_http2
                     THEN [ssl_context EXCEPT !.alpn = <<"h2", "http/1.1">>]
                     ELSE ssl_context
        with_versions ==
            IF disable_tls_1_3
            THEN [with_alpn EXCEPT !.minimum_version = "TLSv1_2",
                                   !.maximum_version = "TLSv1_2"]
            ELSE [with_alpn EXCEPT !.minimum_version = "TLSv1_2",
                                   !.maximum_version = "TLSv1_3"]
        ciphersuites == [i \in 1..Len(Ciphers) |-> with_versions.ciphers[shuffle[i]]]
    IN  [with_versions EXCEPT !.ciphers = ciphersuites]

\* The pre-defined contexts, in the order the module builds them.
TLS_CONTEXTS ==
    << [name |-> "TLS_CONTEXT_HTTP2", use_http2 |-> TRUE, disable_tls_1_3 |-> FALSE],
       [name |-> "TLS_CONTEXT_HTTP1", use_http2 |-> FALSE, disable_tls_1_3 |-> FALSE],
       [name |-> "TLS_CONTEXT_HTTP2_NO_TLS13", use_http2 |-> TRUE, disable_tls_1_3 |-> TRUE],
       [name |-> "TLS_CONTEXT_HTTP1_NO_TLS13", use_http2 |-> FALSE, disable_tls_1_3 |-> TRUE] >>

\* --------------------------------------------------- instances of the class
\* networking_manager, the module-level instance, and one more NetworkingManager().
Instances == {"networking_manager", "manager"}
NoInstance == ""

\* self._client, read: the instance's own attribute, else the class attribute.
getattr_client(inst, cls, m) == IF inst[m] = Unset THEN cls ELSE inst[m]

\* An assignment that lands on the class: NetworkingManager._client = v.
setattr_client_class(inst, cls, m, v) == [instance |-> inst, class |-> v]

\* self._client = v: the assignment creates or replaces the attribute of the
\* instance m and leaves the class attribute alone.
setattr_client(inst, cls, m, v) == [instance |-> [inst EXCEPT ![m] = v], class |-> cls]

\* The calls on one instance that are suspended in an await.
NoAwaits == [aclose |-> 0, transport |-> 0]
InstancesInFlight ==
    LET n(m) == awaiting[m].aclose + awaiting[m].transport
    IN  n("networking_manager") + n("manager")

\* ---------------------------------------------------------------- actions
Init ==
    /\ client = None
    /\ constructed = 0
    /\ aclosed = [c \in ClientIds |-> 0]
    /\ calls = 0
    /\ task = [i \in CallIds |-> Idle]
    /\ log = <<>>
    /\ sent = NoSend
    /\ last = NoCall
    /\ tls_contexts = <<>>
    /\ instance_client = [m \in Instances |-> Unset]
    /\ class_client = None
    /\ instance_made = 0
    /\ instance_calls = 0
    /\ awaiting = [m \in Instances |-> NoAwaits]
    /\ acted = NoInstance

\* A coroutine calls startup(); the call runs to its end without suspending.
Startup ==
    /\ calls < MaxCalls
    /\ calls' = calls + 1
    /\ LET s == startup(client, constructed)
       IN  /\ client' = s.client
           /\ constructed' = s.constructed
           /\ log' = s.log
    /\ sent' = NoSend
    /\ last' = Finished("startup", NoType, NoResponse, 0, 0, ReturnedNone)
    /\ UNCHANGED <<aclosed, task>>
    /\ UNCHANGED elsewhere

\* A coroutine calls shutdown(): with no handle it warns and returns; with a
\* handle it invokes aclose() on it and suspends.
Shutdown ==
    /\ calls < MaxCalls
    /\ calls' = calls + 1
    /\ LET s == shutdown_enter(client)
       IN  /\ log' = s.log
           /\ IF s.aclose = None
              THEN /\ last' = Finished("shutdown", NoType, NoResponse, 0, 0, ReturnedNone)
                   /\ UNCHANGED <<aclosed, task>>
              ELSE /\ InFlight < MaxInFlight
                   /\ aclosed' = [aclosed EXCEPT ![s.aclose] = @ + 1]
                   /\ task' = [task EXCEPT ![calls + 1] =
                                  Suspended("shutdown", "aclose", NoType, s.aclose)]
                   /\ last' = NoCall
    /\ sent' = NoSend
    /\ UNCHANGED <<client, constructed>>
    /\ UNCHANGED elsewhere

\* aclose() returns to call i, which clears the handle and returns.
ShutdownResume(i) ==
    /\ task[i].pc = "aclose"
    /\ client' = shutdown_clear(client)
    /\ log' = <<>>
    /\ sent' = NoSend
    /\ last' = Finished("shutdown", NoType, NoResponse, 0, 0, ReturnedNone)
    /\ task' = [task EXCEPT ![i] = Idle]
    /\ UNCHANGED <<constructed, aclosed, calls>>
    /\ UNCHANGED elsewhere

\* aclose() raises in call i: the exception leaves shutdown() before the
\* handle is cleared.
ShutdownRaise(i) ==
    /\ task[i].pc = "aclose"
    /\ log' = <<>>
    /\ sent' = NoSend
    /\ last' = Finished("shutdown", NoType, NoResponse, 0, 0,
                        Raised(Exc("CloseError", NoResponse)))
    /\ task' = [task EXCEPT ![i] = Idle]
    /\ UNCHANGED <<client, constructed, aclosed, calls>>
    /\ UNCHANGED elsewhere

\* A coroutine calls request(method, ..., expected_type=expected_type,
\* **kwargs): implicit startup when there is no handle, then the transport
\* call, where it suspends.
Request(method, expected_type, kwargs) ==
    /\ calls < MaxCalls
    /\ calls' = calls + 1
    /\ InFlight < MaxInFlight
    /\ LET r == request_enter(client, constructed)
       IN  /\ client' = r.client
           /\ constructed' = r.constructed
           /\ log' = r.log
           /\ sent' = Send(calls + 1, r.handle, method, request_args(kwargs), kwargs)
           /\ task' = [task EXCEPT ![calls + 1] =
                          Suspended("request", "transport", expected_type, r.handle)]
    /\ last' = NoCall
    /\ UNCHANGED aclosed
    /\ UNCHANGED elsewhere

\* The verb shortcuts: each fixes the method and forwards to request.
get(expected_type, kwargs) == Request("GET", expected_type, kwargs)
post(expected_type, kwargs) == Request("POST", expected_type, kwargs)
put(expected_type, kwargs) == Request("PUT", expected_type, kwargs)
delete(expected_type, kwargs) == Request("DELETE", expected_type, kwargs)
head(expected_type, kwargs) == Request("HEAD", expected_type, kwargs)
options(expected_type, kwargs) == Request("OPTIONS", expected_type, kwargs)
patch(expected_type, kwargs) == Request("PATCH", expected_type, kwargs)

\* The transport call of call i finishes with outcome tr; request runs to
\* its end.
RequestResume(i, tr) ==
    /\ task[i].pc = "transport"
    /\ LET f == request_finish(tr, task[i].expected_type)
       IN  /\ log' = f.log
           /\ last' = Finished("request", task[i].expected_type, tr.response,
                               f.decoded, f.validated, f.result)
           /\ sent' = f.sent
    /\ task' = [task EXCEPT ![i] = Idle]
    /\ UNCHANGED <<client, constructed, aclosed, calls>>
    /\ UNCHANGED elsewhere

\* A request() call, direct or through a verb shortcut, with options from
\* the set K.
RequestCall(K) ==
    \E expected_type \in Shapes \cup {NoType}, kwargs \in K :
        \/ \E method \in Methods : Request(method, expected_type, kwargs)
        \/ get(expected_type, kwargs)
        \/ post(expected_type, kwargs)
        \/ put(expected_type, kwargs)
        \/ delete(expected_type, kwargs)
        \/ head(expected_type, kwargs)
        \/ options(expected_type, kwargs)
        \/ patch(expected_type, kwargs)

\* The lifecycle: every call, the requests made without keyword options.
Next ==
    \/ Startup
    \/ Shutdown
    \/ \E i \in CallIds : ShutdownResume(i)
    \/ \E i \in CallIds : ShutdownRaise(i)
    \/ RequestCall({NoKwargs})
    \/ \E i \in CallIds : \E tr \in TransportOutcomes(i) : RequestResume(i, tr)

Spec == Init /\ [][Next]_vars

\* The options: requests made with every combination of keyword options, on
\* a manager that is started implicitly and never shut down.
NextOptions ==
    \/ calls < MaxOptionCalls /\ RequestCall(Kwargs)
    \/ \E i \in CallIds : \E tr \in TransportOutcomes(i) : RequestResume(i, tr)

SpecOptions == Init /\ [][NextOptions]_vars

\* tls.py is imported: the next of its four pre-defined contexts is built.
CreateTlsContext ==
    /\ Len(tls_contexts) < Len(TLS_CONTEXTS)
    /\ \E shuffle \in Shuffles :
          LET c == TLS_CONTEXTS[Len(tls_contexts) + 1]
          IN  tls_contexts' = Append(tls_contexts,
                  [name |-> c.name, use_http2 |-> c.use_http2,
                   disable_tls_1_3 |-> c.disable_tls_1_3,
                   context |-> create_ssl_context(c.use_http2, c.disable_tls_1_3, shuffle)])
    /\ UNCHANGED <<manager, instance_client, class_client, instance_made,
                   instance_calls, awaiting, acted>>

NextTls == CreateTlsContext

SpecTls == Init /\ [][NextTls]_vars

\* self._client = v on instance m.
Assign(m, v) ==
    LET a == setattr_client(instance_client, class_client, m, v)
    IN  /\ instance_client' = a.instance
        /\ class_client' = a.class

\* A coroutine calls m.startup().
StartupOn(m) ==
    /\ instance_calls < MaxInstanceCalls
    /\ instance_calls' = instance_calls + 1
    /\ LET s == startup(getattr_client(instance_client, class_client, m), instance_made)
       IN  /\ instance_made' = s.constructed
           /\ IF s.constructed # instance_made
              THEN Assign(m, s.client)
              ELSE UNCHANGED <<instance_client, class_client>>
    /\ acted' = m
    /\ UNCHANGED <<manager, tls_contexts, awaiting>>

\* A coroutine calls m.shutdown(): without a handle it returns, with one it
\* suspends in aclose().
ShutdownOn(m) ==
    /\ instance_calls < MaxInstanceCalls
    /\ instance_calls' = instance_calls + 1
    /\ LET s == shutdown_enter(getattr_client(instance_client, class_client, m))
       IN  IF s.aclose = None
           THEN UNCHANGED awaiting
           ELSE /\ InstancesInFlight < MaxInFlight
                /\ awaiting' = [awaiting EXCEPT ![m].aclose = @ + 1]
    /\ acted' = m
    /\ UNCHANGED <<manager, tls_contexts, instance_client, class_client, instance_made>>

\* aclose() returns to a shutdown() of m, which clears the handle.
ShutdownResumeOn(m) ==
    /\ awaiting[m].aclose > 0
    /\ awaiting' = [awaiting EXCEPT ![m].aclose = @ - 1]
    /\ Assign(m, shutdown_clear(getattr_client(instance_client, class_client, m)))
    /\ acted' = m
    /\ UNCHANGED <<manager, tls_contexts, instance_made, instance_calls>>

\* aclose() raises in a shutdown() of m.
ShutdownRaiseOn(m) ==
    /\ awaiting[m].aclose > 0
    /\ awaiting' = [awaiting EXCEPT ![m].aclose = @ - 1]
    /\ acted' = m
    /\ UNCHANGED <<manager, tls_contexts, instance_client, class_client,
                   instance_made, instance_calls>>

\* A coroutine calls m.request(...): implicit startup when m has no handle,
\* then it suspends in the transport call.
RequestOn(m) ==
    /\ instance_calls < MaxInstanceCalls
    /\ instance_calls' = instance_calls + 1
    /\ InstancesInFlight < MaxInFlight
    /\ LET r == request_enter(getattr_client(instance_client, class_client, m),
                              instance_made)
       IN  /\ instance_made' = r.constructed
           /\ IF r.constructed # instance_made
              THEN Assign(m, r.client)
              ELSE UNCHANGED <<instance_client, class_client>>
    /\ awaiting' = [awaiting EXCEPT ![m].transport = @ + 1]
    /\ acted' = m
    /\ UNCHANGED <<manager, tls_contexts>>

\* The transport call of a request() of m finishes; request runs to its end,
\* returning or raising.
RequestResumeOn(m) ==
    /\ awaiting[m].transport > 0
    /\ awaiting' = [awaiting EXCEPT ![m].transport = @ - 1]
    /\ acted' = m
    /\ UNCHANGED <<manager, tls_contexts, instance_client, class_client,
                   instance_made, instance_calls>>

NextInstances ==
    \/ \E m \in Instances : StartupOn(m)
    \/ \E m \in Instances : ShutdownOn(m)
    \/ \E m \in Instances : ShutdownResumeOn(m)
    \/ \E m \in Instances : ShutdownRaiseOn(m)
    \/ \E m \in Instances : RequestOn(m)
    \/ \E m \in Instances : RequestResumeOn(m)

SpecInstances == Init /\ [][NextInstances]_vars

\* ------------------------------------------------------------- properties
AnyRequest == \E method \in Methods \cup Verbs, expected_type \in Shapes \cup {NoType},
                 kwargs \in Kwargs : Request(method, expected_type, kwargs)

NeverClosed == \A c \in ClientIds : aclosed[c] = 0

\* Clients that were constructed and on which aclose() was never invoked.
Live == {c \in 1..constructed : aclosed[c] = 0}

Levels(lines, level) == Len(SelectSeq(lines, LAMBDA l : l.level = level))

\* C1: as long as no shutdown() has released anything, concurrent request()
\* (and startup()) calls on a cold manager construct exactly one client, and
\* every suspended request issued its transport call on that one client,
\* which is the manager's handle.
C1_SingleConstruction ==
    NeverClosed =>
        /\ constructed <= 1
        /\ \A i \in CallIds : task[i].op = "request" =>
               /\ constructed = 1
               /\ task[i].handle = client
               /\ \A j \in CallIds : task[j].op = "request" => task[j].handle = task[i].handle

\* Two request() calls made on the cold manager are both suspended in their
\* transport call, on the same client.
C1_Witness ==
    /\ task[1].op = "request" /\ task[2].op = "request"
    /\ task[1].handle = 1 /\ task[2].handle = 1
    /\ constructed = 1

\* C2: at most one client is constructed and not yet released.
C2_AtMostOneLive == Cardinality(Live) <= 1

\* C3: a shutdown() that completes leaves the handle absent; startup() or
\* request() on an absent handle installs a client constructed by that very
\* call, on which aclose() was never invoked; the handle never changes from
\* one client to another.
C3_Lifecycle ==
    [][ /\ (\E i \in CallIds : ShutdownResume(i)) => client' = None
        /\ (client = None /\ (Startup \/ AnyRequest)) =>
               /\ client' = constructed + 1
               /\ constructed' = constructed + 1
               /\ aclosed'[client'] = 0
        /\ client' # client => (client = None \/ client' = None) ]_vars

\* The manager is active again, on a second client, after the first was
\* released and the handle cleared.
C3_Witness ==
    /\ client = 2
    /\ aclosed[1] = 1 /\ aclosed[2] = 0
    /\ \A i \in CallIds : task[i] = Idle

\* C4: startup() on a manager that already has a handle constructs nothing,
\* leaves the handle the same client, logs exactly one line, a WARNING, and
\* returns without raising.
C4_SecondStartup ==
    [][ (client # None /\ Startup) =>
            /\ constructed' = constructed
            /\ client' = client
            /\ Len(log') = 1 /\ Levels(log', "WARNING") = 1
            /\ last'.op = "startup" /\ last'.result = ReturnedNone ]_vars

\* The second of two startup() calls in sequence has returned.
C4_Witness ==
    /\ calls = 2 /\ constructed = 1 /\ client = 1
    /\ last.op = "startup"
    /\ log = <<warning("HTTP client already initialized.")>>

\* C5: shutdown() on a manager without a handle logs exactly one line, a
\* WARNING, returns without raising, invokes no aclose() and leaves the
\* handle absent.
C5_ShutdownWithoutHandle ==
    [][ (client = None /\ Shutdown) =>
            /\ Len(log') = 1 /\ Levels(log', "WARNING") = 1
            /\ last'.op = "shutdown" /\ last'.result = ReturnedNone
            /\ aclosed' = aclosed
            /\ task' = task
            /\ client' = None ]_vars

\* shutdown() has returned on a manager that was already shut down.
C5_Witness ==
    /\ client = None /\ constructed = 1 /\ aclosed[1] = 1
    /\ last.op = "shutdown"
    /\ log = <<warning("HTTP client not initialized or already closed.")>>

\* The latest step finished a request() whose transport call returned a
\* response (rather than raising).
GotResponse == last.op = "request" /\ last.response # NoResponse

Failed == last.op = "request" /\ last.result.kind = "raise"

Deprecations(lines) ==
    Len(SelectSeq(lines, LAMBDA l : l = warning("Non-typed responses are deprecated")))

\* C6: a request() whose response has a status outside 200..299 raises
\* HTTPStatusError about that response, whether or not expected_type was
\* given; the body is not decoded, validate is not called, and neither a
\* TypedResponse nor the raw response is returned.
C6_StatusErrorFirst ==
    (GotResponse /\ ~(last.response.status \in 200..299)) =>
        /\ last.result = Raised(Exc("HTTPStatusError", last.response))
        /\ last.decoded = 0
        /\ last.validated = 0

\* A typed request() has failed on a 404 whose body would have decoded and
\* conformed.
C6_Witness ==
    /\ GotResponse
    /\ last.response.status = 404 /\ last.response.body = "1"
    /\ last.expected_type = "int"
    /\ last.result.error.kind = "HTTPStatusError"

\* C7: a TypedResponse is returned only by a request() given an
\* expected_type; it holds the response that call received, and its data is
\* the decoded body of that response, validated once, conforming to that
\* call's expected_type.
C7_TypedIsValidated ==
    last.result.kind = "typed" =>
        /\ last.op = "request"
        /\ last.expected_type # NoType
        /\ last.result.response = last.response
        /\ last.validated = 1
        /\ JsonDecode(last.response.body).ok
        /\ last.result.data = JsonDecode(last.response.body).data
        /\ last.result.data.type = last.expected_type

\* A TypedResponse was returned while another request(), with a different
\* expected_type, is still suspended.
C7_Witness ==
    /\ last.result.kind = "typed"
    /\ \E i \in CallIds : /\ task[i].op = "request"
                          /\ task[i].expected_type = "list"
                          /\ last.expected_type = "int"

\* C8: a request() that returns gives the raw response when no expected_type
\* was given and a TypedResponse otherwise; the deprecation warning is
\* written once by a step that returns a raw response and by no other step.
C8_DeprecationIffRaw ==
    /\ (last.op = "request" /\ last.result.kind # "raise") =>
           last.result.kind = (IF last.expected_type = NoType THEN "raw" ELSE "typed")
    /\ last.result.kind = "raw" => last.result.response = last.response
    /\ Deprecations(log) = (IF last.result.kind = "raw" THEN 1 ELSE 0)

\* An untyped request() has returned the raw response and warned.
C8_Witness ==
    /\ last.result.kind = "raw"
    /\ last.expected_type = NoType
    /\ Deprecations(log) = 1

\* C9: a request() given an expected_type whose response has a success
\* status raises the decode error, without calling validate, when the body
\* does not decode; raises ValidationError when the decoded data does not
\* conform; and returns a TypedResponse otherwise.  The exception the caller
\* gets is the one raised in from_response.
C9_DecodeAndValidateOrRaise ==
    (GotResponse /\ last.expected_type # NoType /\ last.response.status \in 200..299) =>
        LET json_data == JsonDecode(last.response.body)
        IN  IF ~json_data.ok
            THEN /\ last.result = Raised(Exc("DecodeError", last.response))
                 /\ last.validated = 0
            ELSE IF json_data.data.type # last.expected_type
            THEN /\ last.result = Raised(Exc("ValidationError", last.response))
                 /\ last.validated = 1
            ELSE last.result.kind = "typed"

\* A typed request() has failed with the decode error on a 200 response.
C9_Witness ==
    /\ GotResponse
    /\ last.response.status = 200 /\ last.response.body = "<html>"
    /\ last.expected_type # NoType
    /\ last.result.error.kind = "DecodeError"
    /\ last.validated = 0

\* C10 as claimed: a failed request() writes exactly one ERROR line.
C10_LoggedOnce == Failed => Levels(log, "ERROR") = 1

\* C10 as amended: a failed request() writes one ERROR line, in request's
\* except clause, for a transport or HTTP status error, and two for a decode
\* or validation error: one in from_response, one in request's except clause.
C10_LoggedPerHandler ==
    Failed =>
        /\ last.result.error.kind \in {"TransportError", "HTTPStatusError"} =>
               log = <<error("Request failed", TRUE)>>
        /\ last.result.error.kind = "DecodeError" =>
               log = <<error("Error processing response", TRUE), error("Request failed", TRUE)>>
        /\ last.result.error.kind = "ValidationError" =>
               log = <<error("Response validation failed", FALSE), error("Request failed", TRUE)>>
        /\ last.result.error.kind \in
               {"TransportError", "HTTPStatusError", "DecodeError", "ValidationError"}

\* A request() has failed with ValidationError and two ERROR lines.
C10_Witness ==
    /\ Failed
    /\ last.result.error.kind = "ValidationError"
    /\ Levels(log, "ERROR") = 2

\* C11: request() issues its one transport call in the step that begins the
\* call and none when it finishes, whatever the outcome; a transport error
\* and a non-success status reach the caller as that error, with no value.
C11_NoRetry ==
    /\ sent # NoSend =>
           /\ last = NoCall
           /\ sent.req = calls
           /\ task[calls].pc = "transport"
    /\ last.op = "request" => sent = NoSend
    /\ (last.op = "request" /\ last.response = NoResponse) =>
           last.result = Raised(Exc("TransportError", NoResponse))
    /\ (GotResponse /\ ~(last.response.status \in 200..299)) =>
           last.result = Raised(Exc("HTTPStatusError", last.response))

\* A request() has failed with a transport error and issued nothing more.
C11_Witness ==
    /\ Failed
    /\ last.result.error.kind = "TransportError"
    /\ sent = NoSend

\* C12: no step of request() changes the handle of a manager that has one,
\* constructs a client or invokes aclose(), whether the call returns or
\* raises; on a manager without a handle the step that begins the call
\* installs a newly constructed client and the step that ends it changes
\* nothing.
C12_RequestKeepsHandle ==
    [][ /\ (client # None /\ AnyRequest) =>
               (client' = client /\ constructed' = constructed /\ aclosed' = aclosed)
        /\ (client = None /\ AnyRequest) =>
               (client' = constructed + 1 /\ constructed' = constructed + 1 /\ aclosed' = aclosed)
        /\ (\E i \in CallIds : \E tr \in TransportOutcomes(i) : RequestResume(i, tr)) =>
               (client' = client /\ constructed' = constructed /\ aclosed' = aclosed) ]_vars

\* A request() has raised on a manager whose handle is still its first client.
C12_Witness ==
    /\ Failed
    /\ client = 1 /\ constructed = 1 /\ NeverClosed

\* C16: request() never issues its transport call on a client on which
\* shutdown() has already invoked aclose().
C16_NoSendOnClosing == sent # NoSend => (sent.on \in ClientIds => aclosed[sent.on] = 0)

\* C17: when request() issues its transport call the handle is present: the
\* call is issued on a constructed client, which is the manager's handle.
C17_HandlePresentAtSend ==
    sent # NoSend =>
        /\ sent.on # None
        /\ sent.on \in 1..constructed
        /\ sent.on = client

\* A request() has issued its transport call, after an implicit startup,
\* while a shutdown() of the previous client is still suspended in aclose().
C17_Witness ==
    /\ sent # NoSend
    /\ sent.on = 2
    /\ \E i \in CallIds : task[i].pc = "aclose" /\ task[i].handle = 1

\* C18: aclose() is invoked at most once on every client.
C18_ReleasedOnce == \A c \in ClientIds : aclosed[c] <= 1

\* C19: a shutdown() whose aclose() raises raises to its caller and leaves
\* the handle set to the client whose release failed.
C19_FailedReleaseKeepsHandle ==
    [][ \A i \in CallIds : ShutdownRaise(i) =>
            /\ last'.result.kind = "raise"
            /\ client' = task[i].handle ]_vars

\* C13: the headers of the transport call are the three defaults and the
\* caller's headers: every caller header is sent with the caller's value,
\* also when it names a default, and every default the caller does not name
\* is sent with its default value.
C13_HeadersMerged ==
    sent # NoSend =>
        LET caller == IF "headers" \in DOMAIN sent.given THEN sent.given["headers"] ELSE <<>>
        IN  /\ DOMAIN sent.headers = {"accept", "user-agent", "accept-encoding"} \cup DOMAIN caller
            /\ \A k \in DOMAIN caller : sent.headers[k] = caller[k]
            /\ "accept" \notin DOMAIN caller => sent.headers["accept"] = "*/*"
            /\ "user-agent" \notin DOMAIN caller => sent.headers["user-agent"] = DEFAULT_USER_AGENT
            /\ "accept-encoding" \notin DOMAIN caller =>
                   sent.headers["accept-encoding"] = "gzip,deflate"

\* A call given user-agent X and x-custom Y has issued its transport call.
C13_Witness ==
    /\ sent # NoSend
    /\ "headers" \in DOMAIN sent.given
    /\ DOMAIN sent.given["headers"] = {"user-agent", "x-custom"}
    /\ sent.headers["user-agent"] = "X"
    /\ sent.headers["x-custom"] = "Y"
    /\ sent.headers["accept"] = "*/*"

\* C14: the timeout of the transport call is the caller's timeout option
\* when one is given and 9 otherwise, for request() and every verb shortcut,
\* and none of timeout, headers and proxy is among the options passed
\* through, which are the caller's other options unchanged.
C14_Timeout ==
    sent # NoSend =>
        /\ sent.method \in Methods \cup Verbs
        /\ sent.timeout = (IF "timeout" \in DOMAIN sent.given THEN sent.given["timeout"] ELSE 9)
        /\ DOMAIN sent.kwargs = DOMAIN sent.given \ {"timeout", "headers", "proxy"}
        /\ \A k \in DOMAIN sent.kwargs : sent.kwargs[k] = sent.given[k]

\* A verb shortcut given timeout 2 has issued its transport call, after a
\* call without a timeout option was made.
C14_Witness ==
    /\ sent # NoSend
    /\ sent.method = "POST"
    /\ DOMAIN sent.given = {"timeout", "json"}
    /\ sent.timeout = 2
    /\ sent.req = 2

\* C15: each pre-defined TLS context offers ALPN ["h2","http/1.1"] when
\* HTTP/2 is enabled and ["http/1.1"] otherwise, has minimum version TLS 1.2,
\* and maximum version TLS 1.2 when TLS 1.3 is disabled and TLS 1.3
\* otherwise.
C15_Profile ==
    \A k \in 1..Len(tls_contexts) :
        LET c == tls_contexts[k]
        IN  /\ c.context.alpn = (IF c.use_http2 THEN <<"h2", "http/1.1">>
                                 ELSE <<"http/1.1">>)
            /\ c.context.minimum_version = "TLSv1_2"
            /\ c.context.maximum_version = (IF c.disable_tls_1_3 THEN "TLSv1_2"
                                            ELSE "TLSv1_3")

\* C20: a step of startup, shutdown or request on one instance leaves the
\* handle of every other instance as it was, and the class-level handle is
\* None after every step.
C20_Independent ==
    [][ /\ class_client' = None
        /\ \A m \in Instances \ {acted'} : instance_client'[m] = instance_client[m]
      ]_vars

\* One instance holds a client while the other has been started and shut down.
C20_Witness ==
    /\ acted = "manager"
    /\ instance_client["manager"] = None
    /\ instance_client["networking_manager"] \in ClientIds
    /\ class_client = None

====
